---------------------------- MODULE Spec2Model ----------------------------
(***************************************************************************)
(* Model of anegg2/sizetest: sizing.py (measurement estimation and size    *)
(* lookup) and bot.py (the Telegram handlers that drive it).               *)
(*                                                                         *)
(* Python floats are modelled as IEEE 754 doubles with an exact mantissa;  *)
(* a normalized landmark coordinate is the float k / Grid with k in        *)
(* 0..Grid.  Python strings are sequences of code points.                   *)
(***************************************************************************)
EXTENDS Integers, Sequences, FiniteSets, TLC

VARIABLES
    call,               \* core: the function applied and its arguments
    ret,                \* core: its result, or Pending before it ran
    user_photo_paths,   \* bot.py: dict user_id -> Path (None when unset)
    user_waits_height,  \* bot.py: set of user ids
    disk,               \* media/user_<id>.jpg: the stored image, or None
    tasks,              \* one running handler coroutine per received message
    photos_received,    \* per user: photo messages received
    estimations,        \* per user: calls of estimate_measurements
    invocation,         \* the latest call of estimate_measurements by a handler
    reply               \* the latest size reply sent by handle_height

vars == <<call, ret, user_photo_paths, user_waits_height, disk, tasks,
          photos_received, estimations, invocation, reply>>

coreVars == <<call, ret>>
botVars == <<user_photo_paths, user_waits_height, disk, tasks,
             photos_received, estimations, invocation, reply>>

\* the result slot of a core call: pending, or done with a value
Pending == [done |-> FALSE]
Done(value) == [done |-> TRUE, value |-> value]

-----------------------------------------------------------------------------
(* Bounds of the model *)

\* landmark coordinates are k / Grid, k in 0..Grid
Grid == 2
\* heights passed directly to the size resolver: MinHeight..MaxHeight
MinHeight == 95
MaxHeight == 255
\* waist girths passed directly to the resolver: k / WaistDen for
\* k in MinWaist*WaistDen .. MaxWaist*WaistDen
WaistDen == 2
MinWaist == 78
MaxWaist == 116
\* raw codes passed directly to format_size_display: -MaxNegCode..MaxCode
MaxNegCode == 12
MaxCode == 160
\* the far waist girths are 2^HugeExp, -2^HugeExp and 2^-HugeExp
HugeExp == 60

-----------------------------------------------------------------------------
(* Python floats: IEEE 754 binary64, every operation correctly rounded      *)
(* (round half to even).  A float is [s, m, e] with value s * m * 2^e, s in *)
(* {1, -1}, and m a natural number of exactly MantBits bits, or zero.       *)
(* Naturals beyond 32 bits are little-endian sequences of                   *)
(* limbs below Base.  Infinities, NaN, subnormals and -0.0 are not          *)
(* modelled: the exponent is unbounded.                                     *)

abs(x) == IF x < 0 THEN -x ELSE x

LimbBits == 15
Base == 2^LimbBits
\* sys.float_info.mant_dig
MantBits == 53

RECURSIVE BNorm(_)
BNorm(a) ==
    IF a = <<>> THEN a
    ELSE IF a[Len(a)] = 0 THEN BNorm(SubSeq(a, 1, Len(a) - 1)) ELSE a

RECURSIVE BFromInt(_)
BFromInt(k) == IF k = 0 THEN <<>> ELSE <<k % Base>> \o BFromInt(k \div Base)

RECURSIVE BToInt(_)
BToInt(a) == IF a = <<>> THEN 0 ELSE a[1] + Base * BToInt(Tail(a))

RECURSIVE BCmpFrom(_, _, _)
BCmpFrom(a, b, i) ==
    IF i = 0 THEN 0
    ELSE IF a[i] # b[i] THEN (IF a[i] < b[i] THEN -1 ELSE 1)
    ELSE BCmpFrom(a, b, i - 1)

\* -1, 0 or 1 as a < b, a = b or a > b
BCmp(a, b) ==
    IF Len(a) # Len(b) THEN (IF Len(a) < Len(b) THEN -1 ELSE 1)
    ELSE BCmpFrom(a, b, Len(a))

RECURSIVE BAddC(_, _, _)
BAddC(a, b, c) ==
    IF a = <<>> /\ b = <<>> THEN (IF c = 0 THEN <<>> ELSE <<c>>)
    ELSE LET x == (IF a = <<>> THEN 0 ELSE a[1]) + (IF b = <<>> THEN 0 ELSE b[1]) + c
         IN <<x % Base>> \o BAddC(IF a = <<>> THEN a ELSE Tail(a),
                                  IF b = <<>> THEN b ELSE Tail(b), x \div Base)

BAdd(a, b) == BAddC(a, b, 0)

RECURSIVE BSubB(_, _, _)
BSubB(a, b, borrow) ==
    IF a = <<>> THEN <<>>
    ELSE LET x == a[1] - (IF b = <<>> THEN 0 ELSE b[1]) - borrow
         IN <<IF x < 0 THEN x + Base ELSE x>>
            \o BSubB(Tail(a), IF b = <<>> THEN b ELSE Tail(b), IF x < 0 THEN 1 ELSE 0)

\* a - b for a >= b
BSub(a, b) == BNorm(BSubB(a, b, 0))

RECURSIVE BMulSmallC(_, _, _)
BMulSmallC(a, k, c) ==
    IF a = <<>> THEN (IF c = 0 THEN <<>> ELSE <<c>>)
    ELSE LET x == a[1] * k + c
         IN <<x % Base>> \o BMulSmallC(Tail(a), k, x \div Base)

RECURSIVE BMulRec(_, _)
BMulRec(a, b) ==
    IF b = <<>> THEN <<>>
    ELSE BAdd(BMulSmallC(a, b[1], 0), <<0>> \o BMulRec(a, Tail(b)))

BMul(a, b) == IF a = <<>> \/ b = <<>> THEN <<>> ELSE BNorm(BMulRec(a, b))

\* a * 2^n
BShl(a, n) ==
    IF a = <<>> THEN a
    ELSE [i \in 1..(n \div LimbBits) |-> 0] \o BMulSmallC(a, 2^(n % LimbBits), 0)

\* a \div 2^n
BShr(a, n) ==
    LET q == n \div LimbBits
        r == n % LimbBits
        t == IF q >= Len(a) THEN <<>> ELSE SubSeq(a, q + 1, Len(a))
    IN BNorm([i \in 1..Len(t) |->
                 (t[i] \div 2^r)
                 + (IF i < Len(t) THEN (t[i + 1] % 2^r) * 2^(LimbBits - r) ELSE 0)])

\* a % 2^n
BLow(a, n) ==
    LET q == n \div LimbBits
        r == n % LimbBits
    IN IF q >= Len(a) THEN a
       ELSE BNorm(SubSeq(a, 1, q) \o <<a[q + 1] % 2^r>>)

\* the number of bits of a
BBitLen(a) ==
    IF a = <<>> THEN 0
    ELSE LimbBits * (Len(a) - 1)
         + (CHOOSE k \in 1..LimbBits : 2^(k - 1) <= a[Len(a)] /\ a[Len(a)] < 2^k)

BIsOdd(a) == a # <<>> /\ a[1] % 2 = 1

Zero == [s |-> 1, m |-> <<>>, e |-> 0]

\* an exact dyadic value s * m * 2^e, m any natural
Dyadic(s, m, e) == IF m = <<>> THEN Zero ELSE [s |-> s, m |-> m, e |-> e]

DNeg(a) == Dyadic(-a.s, a.m, a.e)
DAbs(a) == Dyadic(1, a.m, a.e)

\* a + b: the mantissas are aligned at the lower exponent e, then added or,
\* for opposite signs, the smaller is taken from the larger (c compares them)
DAdd(a, b) ==
    IF a.m = <<>> THEN b
    ELSE IF b.m = <<>> THEN a
    ELSE LET Aligned(ma, mb, e) ==
                 LET Differ(c) ==
                         IF c = 0 THEN Zero
                         ELSE IF c > 0 THEN Dyadic(a.s, BSub(ma, mb), e)
                         ELSE Dyadic(b.s, BSub(mb, ma), e)
                 IN IF a.s = b.s THEN Dyadic(a.s, BAdd(ma, mb), e)
                    ELSE Differ(BCmp(ma, mb))
             AlignAt(e) == Aligned(BShl(a.m, a.e - e), BShl(b.m, b.e - e), e)
         IN AlignAt(IF a.e < b.e THEN a.e ELSE b.e)

DSub(a, b) == DAdd(a, DNeg(b))
DMul(a, b) == Dyadic(a.s * b.s, BMul(a.m, b.m), a.e + b.e)

\* the sign of a dyadic value: -1, 0 or 1
DSign(a) == IF a.m = <<>> THEN 0 ELSE a.s
\* -1, 0 or 1 as a < b, a = b or a > b
DCmp(a, b) == DSign(DSub(a, b))

\* the float nearest to a dyadic value, ties to the even mantissa: a mantissa
\* of len bits loses its r = len - MantBits low bits; the kept bits q go up by
\* one when the lost bits are more than half (c > 0) or half with q odd
Round(a) ==
    LET Carry(q, e) ==
            IF BBitLen(q) > MantBits THEN Dyadic(a.s, BShr(q, 1), e + 1)
            ELSE Dyadic(a.s, q, e)
        Nearest(q, c, e) ==
            Carry(IF c > 0 \/ (c = 0 /\ BIsOdd(q)) THEN BAdd(q, <<1>>) ELSE q, e)
        Cut(r) ==
            Nearest(BShr(a.m, r), BCmp(BLow(a.m, r), BShl(<<1>>, r - 1)), a.e + r)
        Sized(len) ==
            IF len = 0 THEN Zero
            ELSE IF len <= MantBits THEN Dyadic(a.s, BShl(a.m, MantBits - len), a.e - (MantBits - len))
            ELSE Cut(len - MantBits)
    IN Sized(BBitLen(a.m))

\* float(k) for an int k
FromInt(k) == Round(Dyadic(IF k < 0 THEN -1 ELSE 1, BFromInt(abs(k)), 0))
\* the float 2^k
FPow2(k) == Round(Dyadic(1, <<1>>, k))

FAdd(a, b) == Round(DAdd(a, b))
FSub(a, b) == Round(DSub(a, b))
FMul(a, b) == Round(DMul(a, b))
FAbs(a) == DAbs(a)
FNeg(a) == DNeg(a)

\* -1, 0 or 1 as a < b, a = b or a > b, for floats: by sign, then by
\* exponent (the mantissas have the same length), then by mantissa
FCmp(a, b) ==
    IF a.m = <<>> THEN -DSign(b)
    ELSE IF b.m = <<>> \/ a.s # b.s THEN a.s
    ELSE IF a.e # b.e THEN (IF a.e > b.e THEN a.s ELSE -a.s)
    ELSE a.s * BCmp(a.m, b.m)

FLess(a, b) == FCmp(a, b) < 0
FLeq(a, b) == FCmp(a, b) <= 0
FEq(a, b) == FCmp(a, b) = 0
FPositive(a) == DSign(a) = 1

\* LimbBits steps of restoring division for r < d: <<q, r2>> with
\* r * Base = q * d + r2, the quotient limb q seeded with 0
RECURSIVE DivLimb(_, _, _, _)
DivLimb(q, r, d, n) ==
    IF n = 0 THEN <<q, r>>
    ELSE LET Step(r2) ==
                 IF BCmp(r2, d) >= 0 THEN DivLimb(2 * q + 1, BSub(r2, d), d, n - 1)
                 ELSE DivLimb(2 * q, r2, d, n - 1)
         IN Step(BAdd(r, r))

\* n more limbs of the quotient of r / d for r < d, lowest limb first, and
\* the remainder: <<limbs, r2>>
RECURSIVE DivLimbs(_, _, _)
DivLimbs(r, d, n) ==
    IF n = 0 THEN <<<<>>, r>>
    ELSE LET Lower(limb, t) == <<Append(t[1], limb), t[2]>>
             High(l) == Lower(l[1], DivLimbs(l[2], d, n - 1))
         IN High(DivLimb(0, r, d, LimbBits))

\* a / b for b # 0 (Python raises ZeroDivisionError for b = 0): the quotient of
\* the mantissas to four limbs past the binary point, one more bit that is set
\* when a remainder is left, rounded
FDiv(a, b) ==
    IF a.m = <<>> THEN a
    ELSE LET Sticky(q, r) ==
                 Round(Dyadic(a.s * b.s, BAddC(q, q, IF r = <<>> THEN 0 ELSE 1),
                              a.e - b.e - 4 * LimbBits - 1))
             Quotient(top, t) == Sticky(BNorm(Append(t[1], top)), t[2])
         IN IF BCmp(a.m, b.m) >= 0
            THEN Quotient(1, DivLimbs(BSub(a.m, b.m), b.m, 4))
            ELSE Quotient(0, DivLimbs(a.m, b.m, 4))

\* max(...) of a nonempty set of floats
FMax(S) == CHOOSE m \in S : \A o \in S : FLeq(o, m)

\* the float literal 0.9 of estimate_waist_and_hip: the double nearest to 9/10
WaistFactor == FDiv(FromInt(9), FromInt(10))

-----------------------------------------------------------------------------
(* sizing.py: helpers of the measurement estimator *)

\* indices of the pose landmarks the code reads
NOSE == 0
LEFT_HIP == 23
RIGHT_HIP == 24
LEFT_ANKLE == 27
RIGHT_ANKLE == 28
LEFT_FOOT == 31
RIGHT_FOOT == 32
LandmarkIdx == {NOSE, LEFT_HIP, RIGHT_HIP, LEFT_ANKLE, RIGHT_ANKLE, LEFT_FOOT, RIGHT_FOOT}

\* get_body_height_pixels without the abs(): a head below the feet gives a negative height
get_body_height_pixels_signed(landmarks, image_height) ==
    LET foot_y == FMax({landmarks[LEFT_ANKLE].y, landmarks[RIGHT_ANKLE].y,
                        landmarks[LEFT_FOOT].y, landmarks[RIGHT_FOOT].y})
        head_y == landmarks[NOSE].y
    IN FMul(FSub(foot_y, head_y), FromInt(image_height))

get_body_height_pixels(landmarks, image_height) ==
    LET nose == landmarks[NOSE]
        left_ankle == landmarks[LEFT_ANKLE]
        right_ankle == landmarks[RIGHT_ANKLE]
        left_foot == landmarks[LEFT_FOOT]
        right_foot == landmarks[RIGHT_FOOT]
        foot_y == FMax({left_ankle.y, right_ankle.y, left_foot.y, right_foot.y})
        head_y == nose.y
    IN FAbs(FMul(FSub(foot_y, head_y), FromInt(image_height)))

get_leg_length_pixels(landmarks, image_height) ==
    LET left_hip == landmarks[LEFT_HIP]
        right_hip == landmarks[RIGHT_HIP]
        left_ankle == landmarks[LEFT_ANKLE]
        right_ankle == landmarks[RIGHT_ANKLE]
        waist_y == FMul(FDiv(FAdd(left_hip.y, right_hip.y), FromInt(2)),
                        FromInt(image_height))
        ankle_y == FMul(FDiv(FAdd(left_ankle.y, right_ankle.y), FromInt(2)),
                        FromInt(image_height))
    IN FAbs(FSub(ankle_y, waist_y))

\* returns <<waist_width_px, hip_width_px>>
estimate_waist_and_hip(landmarks, image_width, image_height) ==
    LET left_hip == landmarks[LEFT_HIP]
        right_hip == landmarks[RIGHT_HIP]
        x_left == FMul(left_hip.x, FromInt(image_width))
        x_right == FMul(right_hip.x, FromInt(image_width))
        hip_width_px == FAbs(FSub(x_right, x_left))
        waist_width_px == FMul(hip_width_px, WaistFactor)
    IN <<waist_width_px, hip_width_px>>

-----------------------------------------------------------------------------
(* The file system the code reads: a function from paths to file contents *)

MODEL_PATH == [name |-> "pose_landmarker_full.task", user |-> 0]
\* bot.py: MEDIA_DIR / f"user_{user_id}.jpg"
PhotoPath(user_id) == [name |-> "photo.jpg", user |-> user_id]
\* image_path.with_name(image_path.stem + "_debug.jpg")
DebugPath(image_path) == [name |-> "debug.jpg", user |-> image_path.user]

NoFile == [kind |-> "absent"]
ModelFile == [kind |-> "model"]
\* a decodable image of w x h pixels; poses is what PoseLandmarker.detect
\* returns for it with num_poses = 1: <<>> or <<landmarks>>
Image(w, h, poses) == [kind |-> "image", w |-> w, h |-> h, poses |-> poses]

\* cv2.imread: None unless the file exists and decodes
imread(fs, path) == IF fs[path].kind = "image" THEN fs[path] ELSE NoFile

\* the file cv2.imwrite leaves at debug_path
DebugFile == [kind |-> "debug"]
\* cv2.imwrite(path, image): the file systems it can leave; it writes the
\* file, or returns False and leaves the file system as it was
imwrite(fs, path) == {[fs EXCEPT ![path] = DebugFile], fs}

-----------------------------------------------------------------------------
(* sizing.py: estimate_measurements *)

Raise(exc, msg) == [raised |-> TRUE, exc |-> exc, msg |-> msg]
Return(value) == [raised |-> FALSE, value |-> value]

\* the threshold of "if body_height_px < 10"
MinBodyHeightPx == 10

Measurements(waist_girth, hip_girth, pants_length, debug_path) ==
    [waist_girth |-> waist_girth, hip_girth |-> hip_girth,
     pants_length |-> pants_length, debug_path |-> debug_path]

estimate_measurements(fs, image_path, height_cm) ==
    IF fs[MODEL_PATH].kind = "absent"
    THEN Raise("FileNotFoundError", "model not found")
    ELSE
    LET image_bgr == imread(fs, image_path) IN
    IF image_bgr = NoFile
    THEN Raise("FileNotFoundError", "cannot open image")
    ELSE
    LET h == image_bgr.h
        w == image_bgr.w
        pose_landmarks == image_bgr.poses
    IN
    IF pose_landmarks = <<>>
    THEN Raise("RuntimeError", "pose not found")
    ELSE
    LET landmarks == pose_landmarks[1]
        Scaled(scale, waist_width_px, hip_width_px) ==
            LET leg_px == get_leg_length_pixels(landmarks, h)
                pants_length_cm == FMul(leg_px, scale)
                waist_girth_cm == FMul(FMul(waist_width_px, scale), FromInt(2))
                hip_girth_cm == FMul(FMul(hip_width_px, scale), FromInt(2))
                debug_path == DebugPath(image_path)
            IN Return(Measurements(waist_girth_cm, hip_girth_cm, pants_length_cm, debug_path))
        Widths(scale, wh) == Scaled(scale, wh[1], wh[2])
        Guarded(body_height_px) ==
            IF FLess(body_height_px, FromInt(MinBodyHeightPx))
            THEN Raise("RuntimeError", "body height too small")
            ELSE Widths(FDiv(FromInt(height_cm), body_height_px),
                        estimate_waist_and_hip(landmarks, w, h))
    IN Guarded(get_body_height_pixels(landmarks, h))

\* the file systems estimate_measurements can leave: the debug picture is
\* written (line 128) once the measurements are computed, not when it raised
estimate_measurements_files(fs, result) ==
    IF result.raised THEN {fs} ELSE imwrite(fs, result.value.debug_path)

-----------------------------------------------------------------------------
(* sizing.py: the size matrix and the resolver *)

SIZE_MATRIX ==
    (85 :> [low |-> 92, mid |-> 46, high |-> 146]) @@
    (89 :> [low |-> 96, mid |-> 48, high |-> 148]) @@
    (93 :> [low |-> 100, mid |-> 50, high |-> 150]) @@
    (97 :> [low |-> 104, mid |-> 52, high |-> 152]) @@
    (101 :> [low |-> 108, mid |-> 54, high |-> 154]) @@
    (105 :> [low |-> 112, mid |-> 56, high |-> 156]) @@
    (109 :> [low |-> 116, mid |-> 58, high |-> 158])

RECURSIVE sorted(_)
sorted(S) ==
    IF S = {} THEN <<>>
    ELSE LET m == CHOOSE e \in S : \A o \in S : e <= o
         IN <<m>> \o sorted(S \ {m})

D_VALUES == sorted(DOMAIN SIZE_MATRIX)

\* the key of min() in pick_nearest_d: abs(base - d_cm)
NearestKey(base, d_cm) == FAbs(FSub(FromInt(base), d_cm))

\* min() keeping the last minimum: the higher key wins a tie
RECURSIVE MinLastFrom(_, _, _)
MinLastFrom(i, best, d_cm) ==
    IF i > Len(D_VALUES) THEN best
    ELSE IF FLeq(NearestKey(D_VALUES[i], d_cm), NearestKey(best, d_cm))
         THEN MinLastFrom(i + 1, D_VALUES[i], d_cm)
         ELSE MinLastFrom(i + 1, best, d_cm)

pick_nearest_d_last(d_cm) == MinLastFrom(2, D_VALUES[1], d_cm)

\* Python's min(D_VALUES, key=...) from element i on: an element replaces the
\* one kept only when its key is strictly smaller, so the first minimum wins
RECURSIVE MinFrom(_, _, _)
MinFrom(i, best, d_cm) ==
    IF i > Len(D_VALUES) THEN best
    ELSE IF FLess(NearestKey(D_VALUES[i], d_cm), NearestKey(best, d_cm))
         THEN MinFrom(i + 1, D_VALUES[i], d_cm)
         ELSE MinFrom(i + 1, best, d_cm)

pick_nearest_d(d_cm) == MinFrom(2, D_VALUES[1], d_cm)

\* get_height_band without the branch for heights below 163
get_height_band_unclamped(height_cm) ==
    IF 163 <= height_cm /\ height_cm <= 173 THEN "low"
    ELSE IF 174 <= height_cm /\ height_cm <= 184 THEN "mid"
    ELSE "high"

get_height_band(height_cm) ==
    IF 163 <= height_cm /\ height_cm <= 173 THEN "low"
    ELSE IF 174 <= height_cm /\ height_cm <= 184 THEN "mid"
    ELSE IF 185 <= height_cm /\ height_cm <= 195 THEN "high"
    ELSE IF height_cm < 163 THEN "low"
    ELSE "high"

\* dict[key]: KeyError when the key is absent
Subscript(dict, key) ==
    IF key \in DOMAIN dict THEN Return(dict[key]) ELSE Raise("KeyError", key)

\* recommend_yasneg picking the row by the hip girth
recommend_yasneg_by_hip(meas, height_cm) ==
    LET d == pick_nearest_d(meas.hip_girth)
        band == get_height_band(height_cm)
        row == Subscript(SIZE_MATRIX, d)
    IN IF row.raised THEN row ELSE Subscript(row.value, band)

recommend_yasneg(meas, height_cm) ==
    LET waist_estimate == meas.waist_girth
        d == pick_nearest_d(waist_estimate)
        band == get_height_band(height_cm)
        row == Subscript(SIZE_MATRIX, d)
    IN IF row.raised THEN row ELSE Subscript(row.value, band)

-----------------------------------------------------------------------------
(* Python built-ins on strings.  A str is a sequence of code points; the   *)
(* tables are those of the Unicode 14.0 database of CPython 3.11.          *)

\* the printable ASCII characters, the quotation mark, the backslash and the
\* grave accent by name; Printable[i] has code point 31 + i
Printable == <<
    " ", "!", "QUOTATION MARK", "#", "$", "%", "&", "'", "(", ")", "*", "+",
    ",", "-", ".", "/", "0", "1", "2", "3", "4", "5", "6", "7", "8", "9",
    ":", ";", "<", "=", ">", "?", "@", "A", "B", "C", "D", "E", "F", "G",
    "H", "I", "J", "K", "L", "M", "N", "O", "P", "Q", "R", "S", "T", "U",
    "V", "W", "X", "Y", "Z", "[", "REVERSE SOLIDUS", "]", "^", "_",
    "GRAVE ACCENT", "a", "b", "c", "d", "e", "f", "g", "h", "i", "j", "k",
    "l", "m", "n", "o", "p", "q", "r", "s", "t", "u", "v", "w", "x", "y",
    "z", "{", "|", "}", "~">>

\* ord(ch) of a printable ASCII character
ord(ch) == 31 + CHOOSE i \in 1..Len(Printable) : Printable[i] = ch

\* a string literal of printable ASCII characters
RECURSIVE Chars(_)
Chars(literal) ==
    IF literal = <<>> THEN <<>> ELSE <<ord(Head(literal))>> \o Chars(Tail(literal))

\* ch lies in one of the ranges <<first, last>>
InRanges(ch, ranges) == \E r \in ranges : r[1] <= ch /\ ch <= r[2]

\* the digit zero of every run of decimal digits (category Nd); the digits
\* one to nine follow it
DecimalZeros == {
    48, 1632, 1776, 1984, 2406, 2534, 2662, 2790, 2918, 3046, 3174, 3302,
    3430, 3558, 3664, 3792, 3872, 4160, 4240, 6112, 6160, 6470, 6608, 6784,
    6800, 6992, 7088, 7232, 7248, 42528, 43216, 43264, 43472, 43504, 43600,
    44016, 65296, 66720, 68912, 69734, 69872, 69942, 70096, 70384, 70736,
    70864, 71248, 71360, 71472, 71904, 72016, 72784, 73040, 73120, 92768,
    92864, 93008, 120782, 120792, 120802, 120812, 120822, 123200, 123632,
    125264, 130032}

\* ch.isdecimal(): what int() takes as a digit
IsDecimal(ch) == \E zero \in DecimalZeros : zero <= ch /\ ch <= zero + 9
DigitValue(ch) == ch - (CHOOSE zero \in DecimalZeros : zero <= ch /\ ch <= zero + 9)

\* the characters of numeric type Digit that are not decimal: superscripts,
\* subscripts, circled and parenthesized digits, ...
OtherDigits == {
    <<178, 179>>, <<185, 185>>, <<4969, 4977>>, <<6618, 6618>>,
    <<8304, 8304>>, <<8308, 8313>>, <<8320, 8329>>, <<9312, 9320>>,
    <<9332, 9340>>, <<9352, 9360>>, <<9450, 9450>>, <<9461, 9469>>,
    <<9471, 9471>>, <<10102, 10110>>, <<10112, 10120>>, <<10122, 10130>>,
    <<68160, 68163>>, <<69216, 69224>>, <<69714, 69722>>, <<127232, 127242>>}

\* ch.isdigit()
isdigit(ch) == IsDecimal(ch) \/ InRanges(ch, OtherDigits)

\* str(n) for an int n
RECURSIVE StrNat(_)
StrNat(n) ==
    IF n < 10 THEN <<ord("0") + n>>
    ELSE StrNat(n \div 10) \o <<ord("0") + (n % 10)>>

str(n) == IF n < 0 THEN <<ord("-")>> \o StrNat(-n) ELSE StrNat(n)

\* the characters str.strip() removes: those with ch.isspace()
Whitespace == {
    9, 10, 11, 12, 13, 28, 29, 30, 31, 32, 133, 160, 5760, 8192, 8193, 8194,
    8195, 8196, 8197, 8198, 8199, 8200, 8201, 8202, 8232, 8233, 8239, 8287,
    12288}

\* text without its leading and trailing characters of the set chars
RECURSIVE StripChars(_, _)
StripChars(text, chars) ==
    IF text = <<>> THEN text
    ELSE IF Head(text) \in chars THEN StripChars(Tail(text), chars)
    ELSE IF text[Len(text)] \in chars THEN StripChars(SubSeq(text, 1, Len(text) - 1), chars)
    ELSE text

\* str.strip(): drop leading and trailing whitespace
strip(text) == StripChars(text, Whitespace)

\* the whitespace int() skips: that of isspace() without the four separators
\* U+001C..U+001F, which the C parser of the literal does not take as space
IntWhitespace == Whitespace \ (28..31)

\* the value of a string of decimal digits
RECURSIVE DecimalValue(_)
DecimalValue(digits) ==
    IF digits = <<>> THEN 0
    ELSE 10 * DecimalValue(SubSeq(digits, 1, Len(digits) - 1)) + DigitValue(digits[Len(digits)])

\* a decimal literal: digits of any script, single underscores between them
IsDecimalLiteral(body) ==
    /\ body # <<>>
    /\ IsDecimal(body[1]) /\ IsDecimal(body[Len(body)])
    /\ \A i \in 1..Len(body) : IsDecimal(body[i]) \/ body[i] = ord("_")
    /\ \A i \in 1..(Len(body) - 1) : ~(body[i] = ord("_") /\ body[i + 1] = ord("_"))

\* int(text): whitespace around, an optional sign, a decimal literal;
\* ValueError for anything else
int(text) ==
    LET Signed(sign, body) ==
            IF ~IsDecimalLiteral(body) THEN Raise("ValueError", text)
            ELSE Return(sign * DecimalValue(SelectSeq(body, IsDecimal)))
        Stripped(t) ==
            IF t # <<>> /\ Head(t) \in {ord("+"), ord("-")}
            THEN Signed(IF Head(t) = ord("-") THEN -1 ELSE 1, Tail(t))
            ELSE Signed(1, t)
    IN Stripped(StripChars(text, IntWhitespace))

\* the simple lowercase mappings: <<first, last, step, delta>> maps the code
\* points first, first + step, ..., last to themselves plus delta
LowerRanges == {
    <<65, 90, 1, 32>>, <<192, 214, 1, 32>>, <<216, 222, 1, 32>>,
    <<256, 302, 2, 1>>, <<306, 310, 2, 1>>, <<313, 327, 2, 1>>,
    <<330, 374, 2, 1>>, <<376, 376, 1, -121>>, <<377, 381, 2, 1>>,
    <<385, 385, 1, 210>>, <<386, 388, 2, 1>>, <<390, 390, 1, 206>>,
    <<391, 391, 1, 1>>, <<393, 394, 1, 205>>, <<395, 395, 1, 1>>,
    <<398, 398, 1, 79>>, <<399, 399, 1, 202>>, <<400, 400, 1, 203>>,
    <<401, 401, 1, 1>>, <<403, 403, 1, 205>>, <<404, 404, 1, 207>>,
    <<406, 406, 1, 211>>, <<407, 407, 1, 209>>, <<408, 408, 1, 1>>,
    <<412, 412, 1, 211>>, <<413, 413, 1, 213>>, <<415, 415, 1, 214>>,
    <<416, 420, 2, 1>>, <<422, 422, 1, 218>>, <<423, 423, 1, 1>>,
    <<425, 425, 1, 218>>, <<428, 428, 1, 1>>, <<430, 430, 1, 218>>,
    <<431, 431, 1, 1>>, <<433, 434, 1, 217>>, <<435, 437, 2, 1>>,
    <<439, 439, 1, 219>>, <<440, 440, 1, 1>>, <<444, 444, 1, 1>>,
    <<452, 452, 1, 2>>, <<453, 453, 1, 1>>, <<455, 455, 1, 2>>,
    <<456, 456, 1, 1>>, <<458, 458, 1, 2>>, <<459, 475, 2, 1>>,
    <<478, 494, 2, 1>>, <<497, 497, 1, 2>>, <<498, 500, 2, 1>>,
    <<502, 502, 1, -97>>, <<503, 503, 1, -56>>, <<504, 542, 2, 1>>,
    <<544, 544, 1, -130>>, <<546, 562, 2, 1>>, <<570, 570, 1, 10795>>,
    <<571, 571, 1, 1>>, <<573, 573, 1, -163>>, <<574, 574, 1, 10792>>,
    <<577, 577, 1, 1>>, <<579, 579, 1, -195>>, <<580, 580, 1, 69>>,
    <<581, 581, 1, 71>>, <<582, 590, 2, 1>>, <<880, 882, 2, 1>>,
    <<886, 886, 1, 1>>, <<895, 895, 1, 116>>, <<902, 902, 1, 38>>,
    <<904, 906, 1, 37>>, <<908, 908, 1, 64>>, <<910, 911, 1, 63>>,
    <<913, 929, 1, 32>>, <<931, 939, 1, 32>>, <<975, 975, 1, 8>>,
    <<984, 1006, 2, 1>>, <<1012, 1012, 1, -60>>, <<1015, 1015, 1, 1>>,
    <<1017, 1017, 1, -7>>, <<1018, 1018, 1, 1>>, <<1021, 1023, 1, -130>>,
    <<1024, 1039, 1, 80>>, <<1040, 1071, 1, 32>>, <<1120, 1152, 2, 1>>,
    <<1162, 1214, 2, 1>>, <<1216, 1216, 1, 15>>, <<1217, 1229, 2, 1>>,
    <<1232, 1326, 2, 1>>, <<1329, 1366, 1, 48>>, <<4256, 4293, 1, 7264>>,
    <<4295, 4295, 1, 7264>>, <<4301, 4301, 1, 7264>>,
    <<5024, 5103, 1, 38864>>, <<5104, 5109, 1, 8>>, <<7312, 7354, 1, -3008>>,
    <<7357, 7359, 1, -3008>>, <<7680, 7828, 2, 1>>, <<7838, 7838, 1, -7615>>,
    <<7840, 7934, 2, 1>>, <<7944, 7951, 1, -8>>, <<7960, 7965, 1, -8>>,
    <<7976, 7983, 1, -8>>, <<7992, 7999, 1, -8>>, <<8008, 8013, 1, -8>>,
    <<8025, 8031, 2, -8>>, <<8040, 8047, 1, -8>>, <<8072, 8079, 1, -8>>,
    <<8088, 8095, 1, -8>>, <<8104, 8111, 1, -8>>, <<8120, 8121, 1, -8>>,
    <<8122, 8123, 1, -74>>, <<8124, 8124, 1, -9>>, <<8136, 8139, 1, -86>>,
    <<8140, 8140, 1, -9>>, <<8152, 8153, 1, -8>>, <<8154, 8155, 1, -100>>,
    <<8168, 8169, 1, -8>>, <<8170, 8171, 1, -112>>, <<8172, 8172, 1, -7>>,
    <<8184, 8185, 1, -128>>, <<8186, 8187, 1, -126>>, <<8188, 8188, 1, -9>>,
    <<8486, 8486, 1, -7517>>, <<8490, 8490, 1, -8383>>,
    <<8491, 8491, 1, -8262>>, <<8498, 8498, 1, 28>>, <<8544, 8559, 1, 16>>,
    <<8579, 8579, 1, 1>>, <<9398, 9423, 1, 26>>, <<11264, 11311, 1, 48>>,
    <<11360, 11360, 1, 1>>, <<11362, 11362, 1, -10743>>,
    <<11363, 11363, 1, -3814>>, <<11364, 11364, 1, -10727>>,
    <<11367, 11371, 2, 1>>, <<11373, 11373, 1, -10780>>,
    <<11374, 11374, 1, -10749>>, <<11375, 11375, 1, -10783>>,
    <<11376, 11376, 1, -10782>>, <<11378, 11378, 1, 1>>,
    <<11381, 11381, 1, 1>>, <<11390, 11391, 1, -10815>>,
    <<11392, 11490, 2, 1>>, <<11499, 11501, 2, 1>>, <<11506, 11506, 1, 1>>,
    <<42560, 42604, 2, 1>>, <<42624, 42650, 2, 1>>, <<42786, 42798, 2, 1>>,
    <<42802, 42862, 2, 1>>, <<42873, 42875, 2, 1>>,
    <<42877, 42877, 1, -35332>>, <<42878, 42886, 2, 1>>,
    <<42891, 42891, 1, 1>>, <<42893, 42893, 1, -42280>>,
    <<42896, 42898, 2, 1>>, <<42902, 42920, 2, 1>>,
    <<42922, 42922, 1, -42308>>, <<42923, 42923, 1, -42319>>,
    <<42924, 42924, 1, -42315>>, <<42925, 42925, 1, -42305>>,
    <<42926, 42926, 1, -42308>>, <<42928, 42928, 1, -42258>>,
    <<42929, 42929, 1, -42282>>, <<42930, 42930, 1, -42261>>,
    <<42931, 42931, 1, 928>>, <<42932, 42946, 2, 1>>,
    <<42948, 42948, 1, -48>>, <<42949, 42949, 1, -42307>>,
    <<42950, 42950, 1, -35384>>, <<42951, 42953, 2, 1>>,
    <<42960, 42960, 1, 1>>, <<42966, 42968, 2, 1>>, <<42997, 42997, 1, 1>>,
    <<65313, 65338, 1, 32>>, <<66560, 66599, 1, 40>>,
    <<66736, 66771, 1, 40>>, <<66928, 66938, 1, 39>>,
    <<66940, 66954, 1, 39>>, <<66956, 66962, 1, 39>>,
    <<66964, 66965, 1, 39>>, <<68736, 68786, 1, 64>>,
    <<71840, 71871, 1, 32>>, <<93760, 93791, 1, 32>>,
    <<125184, 125217, 1, 34>>}

\* LATIN CAPITAL LETTER I WITH DOT ABOVE, the one character whose lowercase has
\* two characters: i and COMBINING DOT ABOVE
DottedI == 304
LowerOfDottedI == <<105, 775>>

\* the lowercase of one character, out of context: a string of one or two
\* characters
LowerChar(ch) ==
    LET Maps(r) == r[1] <= ch /\ ch <= r[2] /\ (ch - r[1]) % r[3] = 0 IN
    IF ch = DottedI THEN LowerOfDottedI
    ELSE IF \E r \in LowerRanges : Maps(r)
    THEN <<ch + (CHOOSE r \in LowerRanges : Maps(r))[4]>>
    ELSE <<ch>>

\* the characters with the property Cased
CasedRanges == {
    <<65, 90>>, <<97, 122>>, <<170, 170>>, <<181, 181>>, <<186, 186>>,
    <<192, 214>>, <<216, 246>>, <<248, 442>>, <<444, 447>>, <<452, 659>>,
    <<661, 696>>, <<704, 705>>, <<736, 740>>, <<837, 837>>, <<880, 883>>,
    <<886, 887>>, <<890, 893>>, <<895, 895>>, <<902, 902>>, <<904, 906>>,
    <<908, 908>>, <<910, 929>>, <<931, 1013>>, <<1015, 1153>>,
    <<1162, 1327>>, <<1329, 1366>>, <<1376, 1416>>, <<4256, 4293>>,
    <<4295, 4295>>, <<4301, 4301>>, <<4304, 4346>>, <<4349, 4351>>,
    <<5024, 5109>>, <<5112, 5117>>, <<7296, 7304>>, <<7312, 7354>>,
    <<7357, 7359>>, <<7424, 7615>>, <<7680, 7957>>, <<7960, 7965>>,
    <<7968, 8005>>, <<8008, 8013>>, <<8016, 8023>>, <<8025, 8025>>,
    <<8027, 8027>>, <<8029, 8029>>, <<8031, 8061>>, <<8064, 8116>>,
    <<8118, 8124>>, <<8126, 8126>>, <<8130, 8132>>, <<8134, 8140>>,
    <<8144, 8147>>, <<8150, 8155>>, <<8160, 8172>>, <<8178, 8180>>,
    <<8182, 8188>>, <<8305, 8305>>, <<8319, 8319>>, <<8336, 8348>>,
    <<8450, 8450>>, <<8455, 8455>>, <<8458, 8467>>, <<8469, 8469>>,
    <<8473, 8477>>, <<8484, 8484>>, <<8486, 8486>>, <<8488, 8488>>,
    <<8490, 8493>>, <<8495, 8500>>, <<8505, 8505>>, <<8508, 8511>>,
    <<8517, 8521>>, <<8526, 8526>>, <<8544, 8575>>, <<8579, 8580>>,
    <<9398, 9449>>, <<11264, 11492>>, <<11499, 11502>>, <<11506, 11507>>,
    <<11520, 11557>>, <<11559, 11559>>, <<11565, 11565>>, <<42560, 42605>>,
    <<42624, 42653>>, <<42786, 42887>>, <<42891, 42894>>, <<42896, 42954>>,
    <<42960, 42961>>, <<42963, 42963>>, <<42965, 42969>>, <<42997, 42998>>,
    <<43000, 43002>>, <<43824, 43866>>, <<43868, 43880>>, <<43888, 43967>>,
    <<64256, 64262>>, <<64275, 64279>>, <<65313, 65338>>, <<65345, 65370>>,
    <<66560, 66639>>, <<66736, 66771>>, <<66776, 66811>>, <<66928, 66938>>,
    <<66940, 66954>>, <<66956, 66962>>, <<66964, 66965>>, <<66967, 66977>>,
    <<66979, 66993>>, <<66995, 67001>>, <<67003, 67004>>, <<67456, 67456>>,
    <<67459, 67461>>, <<67463, 67504>>, <<67506, 67514>>, <<68736, 68786>>,
    <<68800, 68850>>, <<71840, 71903>>, <<93760, 93823>>, <<119808, 119892>>,
    <<119894, 119964>>, <<119966, 119967>>, <<119970, 119970>>,
    <<119973, 119974>>, <<119977, 119980>>, <<119982, 119993>>,
    <<119995, 119995>>, <<119997, 120003>>, <<120005, 120069>>,
    <<120071, 120074>>, <<120077, 120084>>, <<120086, 120092>>,
    <<120094, 120121>>, <<120123, 120126>>, <<120128, 120132>>,
    <<120134, 120134>>, <<120138, 120144>>, <<120146, 120485>>,
    <<120488, 120512>>, <<120514, 120538>>, <<120540, 120570>>,
    <<120572, 120596>>, <<120598, 120628>>, <<120630, 120654>>,
    <<120656, 120686>>, <<120688, 120712>>, <<120714, 120744>>,
    <<120746, 120770>>, <<120772, 120779>>, <<122624, 122633>>,
    <<122635, 122654>>, <<125184, 125251>>, <<127280, 127305>>,
    <<127312, 127337>>, <<127344, 127369>>}

\* the characters with the property Case_Ignorable
CaseIgnorableRanges == {
    <<39, 39>>, <<46, 46>>, <<58, 58>>, <<94, 94>>, <<96, 96>>, <<168, 168>>,
    <<173, 173>>, <<175, 175>>, <<180, 180>>, <<183, 184>>, <<688, 879>>,
    <<884, 885>>, <<890, 890>>, <<900, 901>>, <<903, 903>>, <<1155, 1161>>,
    <<1369, 1369>>, <<1375, 1375>>, <<1425, 1469>>, <<1471, 1471>>,
    <<1473, 1474>>, <<1476, 1477>>, <<1479, 1479>>, <<1524, 1524>>,
    <<1536, 1541>>, <<1552, 1562>>, <<1564, 1564>>, <<1600, 1600>>,
    <<1611, 1631>>, <<1648, 1648>>, <<1750, 1757>>, <<1759, 1768>>,
    <<1770, 1773>>, <<1807, 1807>>, <<1809, 1809>>, <<1840, 1866>>,
    <<1958, 1968>>, <<2027, 2037>>, <<2042, 2042>>, <<2045, 2045>>,
    <<2070, 2093>>, <<2137, 2139>>, <<2184, 2184>>, <<2192, 2193>>,
    <<2200, 2207>>, <<2249, 2306>>, <<2362, 2362>>, <<2364, 2364>>,
    <<2369, 2376>>, <<2381, 2381>>, <<2385, 2391>>, <<2402, 2403>>,
    <<2417, 2417>>, <<2433, 2433>>, <<2492, 2492>>, <<2497, 2500>>,
    <<2509, 2509>>, <<2530, 2531>>, <<2558, 2558>>, <<2561, 2562>>,
    <<2620, 2620>>, <<2625, 2626>>, <<2631, 2632>>, <<2635, 2637>>,
    <<2641, 2641>>, <<2672, 2673>>, <<2677, 2677>>, <<2689, 2690>>,
    <<2748, 2748>>, <<2753, 2757>>, <<2759, 2760>>, <<2765, 2765>>,
    <<2786, 2787>>, <<2810, 2815>>, <<2817, 2817>>, <<2876, 2876>>,
    <<2879, 2879>>, <<2881, 2884>>, <<2893, 2893>>, <<2901, 2902>>,
    <<2914, 2915>>, <<2946, 2946>>, <<3008, 3008>>, <<3021, 3021>>,
    <<3072, 3072>>, <<3076, 3076>>, <<3132, 3132>>, <<3134, 3136>>,
    <<3142, 3144>>, <<3146, 3149>>, <<3157, 3158>>, <<3170, 3171>>,
    <<3201, 3201>>, <<3260, 3260>>, <<3263, 3263>>, <<3270, 3270>>,
    <<3276, 3277>>, <<3298, 3299>>, <<3328, 3329>>, <<3387, 3388>>,
    <<3393, 3396>>, <<3405, 3405>>, <<3426, 3427>>, <<3457, 3457>>,
    <<3530, 3530>>, <<3538, 3540>>, <<3542, 3542>>, <<3633, 3633>>,
    <<3636, 3642>>, <<3654, 3662>>, <<3761, 3761>>, <<3764, 3772>>,
    <<3782, 3782>>, <<3784, 3789>>, <<3864, 3865>>, <<3893, 3893>>,
    <<3895, 3895>>, <<3897, 3897>>, <<3953, 3966>>, <<3968, 3972>>,
    <<3974, 3975>>, <<3981, 3991>>, <<3993, 4028>>, <<4038, 4038>>,
    <<4141, 4144>>, <<4146, 4151>>, <<4153, 4154>>, <<4157, 4158>>,
    <<4184, 4185>>, <<4190, 4192>>, <<4209, 4212>>, <<4226, 4226>>,
    <<4229, 4230>>, <<4237, 4237>>, <<4253, 4253>>, <<4348, 4348>>,
    <<4957, 4959>>, <<5906, 5908>>, <<5938, 5939>>, <<5970, 5971>>,
    <<6002, 6003>>, <<6068, 6069>>, <<6071, 6077>>, <<6086, 6086>>,
    <<6089, 6099>>, <<6103, 6103>>, <<6109, 6109>>, <<6155, 6159>>,
    <<6211, 6211>>, <<6277, 6278>>, <<6313, 6313>>, <<6432, 6434>>,
    <<6439, 6440>>, <<6450, 6450>>, <<6457, 6459>>, <<6679, 6680>>,
    <<6683, 6683>>, <<6742, 6742>>, <<6744, 6750>>, <<6752, 6752>>,
    <<6754, 6754>>, <<6757, 6764>>, <<6771, 6780>>, <<6783, 6783>>,
    <<6823, 6823>>, <<6832, 6862>>, <<6912, 6915>>, <<6964, 6964>>,
    <<6966, 6970>>, <<6972, 6972>>, <<6978, 6978>>, <<7019, 7027>>,
    <<7040, 7041>>, <<7074, 7077>>, <<7080, 7081>>, <<7083, 7085>>,
    <<7142, 7142>>, <<7144, 7145>>, <<7149, 7149>>, <<7151, 7153>>,
    <<7212, 7219>>, <<7222, 7223>>, <<7288, 7293>>, <<7376, 7378>>,
    <<7380, 7392>>, <<7394, 7400>>, <<7405, 7405>>, <<7412, 7412>>,
    <<7416, 7417>>, <<7468, 7530>>, <<7544, 7544>>, <<7579, 7679>>,
    <<8125, 8125>>, <<8127, 8129>>, <<8141, 8143>>, <<8157, 8159>>,
    <<8173, 8175>>, <<8189, 8190>>, <<8203, 8207>>, <<8216, 8217>>,
    <<8228, 8228>>, <<8231, 8231>>, <<8234, 8238>>, <<8288, 8292>>,
    <<8294, 8303>>, <<8305, 8305>>, <<8319, 8319>>, <<8336, 8348>>,
    <<8400, 8432>>, <<11388, 11389>>, <<11503, 11505>>, <<11631, 11631>>,
    <<11647, 11647>>, <<11744, 11775>>, <<11823, 11823>>, <<12293, 12293>>,
    <<12330, 12333>>, <<12337, 12341>>, <<12347, 12347>>, <<12441, 12446>>,
    <<12540, 12542>>, <<40981, 40981>>, <<42232, 42237>>, <<42508, 42508>>,
    <<42607, 42610>>, <<42612, 42621>>, <<42623, 42623>>, <<42652, 42655>>,
    <<42736, 42737>>, <<42752, 42785>>, <<42864, 42864>>, <<42888, 42890>>,
    <<42994, 42996>>, <<43000, 43001>>, <<43010, 43010>>, <<43014, 43014>>,
    <<43019, 43019>>, <<43045, 43046>>, <<43052, 43052>>, <<43204, 43205>>,
    <<43232, 43249>>, <<43263, 43263>>, <<43302, 43309>>, <<43335, 43345>>,
    <<43392, 43394>>, <<43443, 43443>>, <<43446, 43449>>, <<43452, 43453>>,
    <<43471, 43471>>, <<43493, 43494>>, <<43561, 43566>>, <<43569, 43570>>,
    <<43573, 43574>>, <<43587, 43587>>, <<43596, 43596>>, <<43632, 43632>>,
    <<43644, 43644>>, <<43696, 43696>>, <<43698, 43700>>, <<43703, 43704>>,
    <<43710, 43711>>, <<43713, 43713>>, <<43741, 43741>>, <<43756, 43757>>,
    <<43763, 43764>>, <<43766, 43766>>, <<43867, 43871>>, <<43881, 43883>>,
    <<44005, 44005>>, <<44008, 44008>>, <<44013, 44013>>, <<64286, 64286>>,
    <<64434, 64450>>, <<65024, 65039>>, <<65043, 65043>>, <<65056, 65071>>,
    <<65106, 65106>>, <<65109, 65109>>, <<65279, 65279>>, <<65287, 65287>>,
    <<65294, 65294>>, <<65306, 65306>>, <<65342, 65342>>, <<65344, 65344>>,
    <<65392, 65392>>, <<65438, 65439>>, <<65507, 65507>>, <<65529, 65531>>,
    <<66045, 66045>>, <<66272, 66272>>, <<66422, 66426>>, <<67456, 67461>>,
    <<67463, 67504>>, <<67506, 67514>>, <<68097, 68099>>, <<68101, 68102>>,
    <<68108, 68111>>, <<68152, 68154>>, <<68159, 68159>>, <<68325, 68326>>,
    <<68900, 68903>>, <<69291, 69292>>, <<69446, 69456>>, <<69506, 69509>>,
    <<69633, 69633>>, <<69688, 69702>>, <<69744, 69744>>, <<69747, 69748>>,
    <<69759, 69761>>, <<69811, 69814>>, <<69817, 69818>>, <<69821, 69821>>,
    <<69826, 69826>>, <<69837, 69837>>, <<69888, 69890>>, <<69927, 69931>>,
    <<69933, 69940>>, <<70003, 70003>>, <<70016, 70017>>, <<70070, 70078>>,
    <<70089, 70092>>, <<70095, 70095>>, <<70191, 70193>>, <<70196, 70196>>,
    <<70198, 70199>>, <<70206, 70206>>, <<70367, 70367>>, <<70371, 70378>>,
    <<70400, 70401>>, <<70459, 70460>>, <<70464, 70464>>, <<70502, 70508>>,
    <<70512, 70516>>, <<70712, 70719>>, <<70722, 70724>>, <<70726, 70726>>,
    <<70750, 70750>>, <<70835, 70840>>, <<70842, 70842>>, <<70847, 70848>>,
    <<70850, 70851>>, <<71090, 71093>>, <<71100, 71101>>, <<71103, 71104>>,
    <<71132, 71133>>, <<71219, 71226>>, <<71229, 71229>>, <<71231, 71232>>,
    <<71339, 71339>>, <<71341, 71341>>, <<71344, 71349>>, <<71351, 71351>>,
    <<71453, 71455>>, <<71458, 71461>>, <<71463, 71467>>, <<71727, 71735>>,
    <<71737, 71738>>, <<71995, 71996>>, <<71998, 71998>>, <<72003, 72003>>,
    <<72148, 72151>>, <<72154, 72155>>, <<72160, 72160>>, <<72193, 72202>>,
    <<72243, 72248>>, <<72251, 72254>>, <<72263, 72263>>, <<72273, 72278>>,
    <<72281, 72283>>, <<72330, 72342>>, <<72344, 72345>>, <<72752, 72758>>,
    <<72760, 72765>>, <<72767, 72767>>, <<72850, 72871>>, <<72874, 72880>>,
    <<72882, 72883>>, <<72885, 72886>>, <<73009, 73014>>, <<73018, 73018>>,
    <<73020, 73021>>, <<73023, 73029>>, <<73031, 73031>>, <<73104, 73105>>,
    <<73109, 73109>>, <<73111, 73111>>, <<73459, 73460>>, <<78896, 78904>>,
    <<92912, 92916>>, <<92976, 92982>>, <<92992, 92995>>, <<94031, 94031>>,
    <<94095, 94111>>, <<94176, 94177>>, <<94179, 94180>>, <<110576, 110579>>,
    <<110581, 110587>>, <<110589, 110590>>, <<113821, 113822>>,
    <<113824, 113827>>, <<118528, 118573>>, <<118576, 118598>>,
    <<119143, 119145>>, <<119155, 119170>>, <<119173, 119179>>,
    <<119210, 119213>>, <<119362, 119364>>, <<121344, 121398>>,
    <<121403, 121452>>, <<121461, 121461>>, <<121476, 121476>>,
    <<121499, 121503>>, <<121505, 121519>>, <<122880, 122886>>,
    <<122888, 122904>>, <<122907, 122913>>, <<122915, 122916>>,
    <<122918, 122922>>, <<123184, 123197>>, <<123566, 123566>>,
    <<123628, 123631>>, <<125136, 125142>>, <<125252, 125259>>,
    <<127995, 127999>>, <<917505, 917505>>, <<917536, 917631>>,
    <<917760, 917999>>}

IsCased(ch) == InRanges(ch, CasedRanges)
IsCaseIgnorable(ch) == InRanges(ch, CaseIgnorableRanges)

\* GREEK CAPITAL LETTER SIGMA, SMALL LETTER FINAL SIGMA, SMALL LETTER SIGMA
CapitalSigma == 931
FinalSigma == 962
SmallSigma == 963

\* the nearest position before i (step -1) or after i (step 1) whose character
\* is not case-ignorable; 0 or Len(text) + 1 when there is none
RECURSIVE SkipIgnorable(_, _, _)
SkipIgnorable(text, i, step) ==
    IF i + step < 1 \/ i + step > Len(text) THEN i + step
    ELSE IF IsCaseIgnorable(text[i + step]) THEN SkipIgnorable(text, i + step, step)
    ELSE i + step

\* the lowercase of the capital sigma at position i: the final sigma when a
\* cased letter precedes it and none follows, case-ignorable characters skipped
handle_capital_sigma(text, i) ==
    LET Follows(j) == j <= Len(text) /\ IsCased(text[j])
        Precedes(j) == j >= 1 /\ IsCased(text[j])
    IN IF Precedes(SkipIgnorable(text, i, -1)) /\ ~Follows(SkipIgnorable(text, i, 1))
       THEN FinalSigma ELSE SmallSigma

RECURSIVE LowerFrom(_, _)
LowerFrom(text, i) ==
    IF i > Len(text) THEN <<>>
    ELSE (IF text[i] = CapitalSigma THEN <<handle_capital_sigma(text, i)>>
          ELSE LowerChar(text[i])) \o LowerFrom(text, i + 1)

\* str.lower()
lower(text) == LowerFrom(text, 1)

-----------------------------------------------------------------------------
(* sizing.py: label rendering *)

SIZE_LABELS ==
    (92 :> Chars(<<"S", "4", "6">>)) @@
    (96 :> Chars(<<"S", "4", "8">>)) @@
    (100 :> Chars(<<"S", "5", "0">>)) @@
    (104 :> Chars(<<"S", "5", "2">>)) @@
    (108 :> Chars(<<"S", "5", "4">>)) @@
    (112 :> Chars(<<"S", "5", "6">>)) @@
    (116 :> Chars(<<"S", "5", "8">>)) @@
    (46 :> Chars(<<"M", "4", "6">>)) @@
    (48 :> Chars(<<"M", "4", "8">>)) @@
    (50 :> Chars(<<"M", "5", "0">>)) @@
    (52 :> Chars(<<"M", "5", "2">>)) @@
    (54 :> Chars(<<"M", "5", "4">>)) @@
    (56 :> Chars(<<"M", "5", "6">>)) @@
    (58 :> Chars(<<"M", "5", "8">>)) @@
    (146 :> Chars(<<"L", "4", "6">>)) @@
    (148 :> Chars(<<"L", "4", "8">>)) @@
    (150 :> Chars(<<"L", "5", "0">>)) @@
    (152 :> Chars(<<"L", "5", "2">>)) @@
    (154 :> Chars(<<"L", "5", "4">>)) @@
    (156 :> Chars(<<"L", "5", "6">>)) @@
    (158 :> Chars(<<"L", "5", "8">>))

\* dict.get(key): None when the key is absent
SizeLabelsGet(raw_size) ==
    IF raw_size \in DOMAIN SIZE_LABELS THEN SIZE_LABELS[raw_size] ELSE <<>>

\* format_size_display putting the label first
format_size_display_label_first(raw_size) ==
    LET label == SizeLabelsGet(raw_size) IN
    IF label # <<>>
    THEN label \o Chars(<<" ", "(">>) \o str(raw_size) \o Chars(<<")">>)
    ELSE str(raw_size)

\* "if label": None and the empty string are both falsy
format_size_display(raw_size) ==
    LET label == SizeLabelsGet(raw_size) IN
    IF label # <<>>
    THEN str(raw_size) \o Chars(<<" ", "(">>) \o label \o Chars(<<")">>)
    ELSE str(raw_size)


-----------------------------------------------------------------------------
(* The core functions applied to inputs drawn from bounded sets *)

Heights == MinHeight..MaxHeight
\* the heights recommend_yasneg is applied to: both ends of the range, both
\* sides of every threshold of get_height_band and of the handler's range
BandHeights ==
    {h \in Heights : h \in {MinHeight, MaxHeight, 129, 130, 162, 163, 173, 174,
                            184, 185, 195, 196, 220, 221}}

\* waist girths k / WaistDen around the belt range
NearWaists ==
    {FDiv(FromInt(k), FromInt(WaistDen)) : k \in (MinWaist * WaistDen)..(MaxWaist * WaistDen)}
\* waist girths far from the belt range: 2^-HugeExp, 2^55, the float just
\* below 2^56, 2^HugeExp and -2^HugeExp
FarWaists ==
    {FPow2(-HugeExp), FPow2(55), FSub(FPow2(56), FromInt(8)), FPow2(HugeExp),
     FNeg(FPow2(HugeExp))}
Waists == NearWaists \cup FarWaists
RawCodes == (-MaxNegCode)..MaxCode

\* a normalized coordinate: the float k / Grid
Coord(k) == FDiv(FromInt(k), FromInt(Grid))
Coords == {Coord(k) : k \in 0..Grid}

\* a pose: the landmarks the code reads; only the hips' x is read
Landmarks(nose_y, lhip, rhip, lankle_y, rankle_y, lfoot_y, rfoot_y) ==
    (NOSE :> [x |-> Zero, y |-> nose_y]) @@
    (LEFT_HIP :> lhip) @@ (RIGHT_HIP :> rhip) @@
    (LEFT_ANKLE :> [x |-> Zero, y |-> lankle_y]) @@
    (RIGHT_ANKLE :> [x |-> Zero, y |-> rankle_y]) @@
    (LEFT_FOOT :> [x |-> Zero, y |-> lfoot_y]) @@
    (RIGHT_FOOT :> [x |-> Zero, y |-> rfoot_y])

\* the poses over a set C of coordinates with least element lo, middle
\* element mid and greatest element hi: level hips at every pair of x with the
\* feet level, every placing of ankles and forefeet with the hips fixed, and
\* every pair of hip points with the head above the feet
PosesOver(C, lo, mid, hi) ==
    {Landmarks(ny, [x |-> lx, y |-> hy], [x |-> rx, y |-> hy], fy, fy, fy, fy) :
        ny \in C, lx \in C, rx \in C, hy \in C, fy \in C}
    \cup
    {Landmarks(ny, [x |-> lo, y |-> mid], [x |-> hi, y |-> mid], la, ra, lf, rf) :
        ny \in C, la \in C, ra \in C, lf \in C, rf \in C}
    \cup
    {Landmarks(lo, lh, rh, hi, hi, hi, hi) : lh \in [x : C, y : C], rh \in [x : C, y : C]}

\* the poses of the calls of estimate_measurements
LandmarkSets == PosesOver(Coords, Coord(0), Coord(1), Coord(Grid))

\* <<image width, image height, height_cm>> of the calls of estimate_measurements:
\* the image heights put the body span on both sides of 10 px
EstimateInputs ==
    {<<16, 9, 175>>, <<16, 10, 1>>, <<16, 10, 175>>, <<24, 18, 175>>, <<24, 20, 175>>}

\* a file system holding the model file and one photo
FsWith(model, photo) ==
    (MODEL_PATH :> model) @@ (PhotoPath(1) :> photo) @@ (DebugPath(PhotoPath(1)) :> NoFile)

\* calls of estimate_measurements that fail before the geometry is looked at
BrokenFs ==
    {FsWith(NoFile, Image(16, 20, <<>>)), FsWith(ModelFile, NoFile),
     FsWith(ModelFile, Image(16, 20, <<>>))}

CallBand(h) == [fn |-> "get_height_band", height_cm |-> h]
CallNearest(d) == [fn |-> "pick_nearest_d", d_cm |-> d]
CallRecommend(m, h) == [fn |-> "recommend_yasneg", meas |-> m, height_cm |-> h]
CallFormat(c) == [fn |-> "format_size_display", raw_size |-> c]
CallEstimate(fs, h) ==
    [fn |-> "estimate_measurements", fs |-> fs, image_path |-> PhotoPath(1), height_cm |-> h]

\* a Measurements value with the given waist: hips wider by 10/9, as the estimator makes them
MeasWithWaist(d) ==
    Measurements(d, FDiv(d, WaistFactor), FromInt(90), DebugPath(PhotoPath(1)))

BotIdle ==
    /\ user_photo_paths = <<>>
    /\ user_waits_height = {}
    /\ disk = <<>>
    /\ tasks = <<>>
    /\ photos_received = <<>>
    /\ estimations = <<>>
    /\ invocation = [n |-> 0]
    /\ reply = [n |-> 0]

CoreInit ==
    /\ ret = Pending
    /\ \/ \E h \in Heights : call = CallBand(h)
       \/ \E d \in Waists : call = CallNearest(d)
       \/ \E d \in Waists, h \in BandHeights : call = CallRecommend(MeasWithWaist(d), h)
       \/ \E c \in RawCodes : call = CallFormat(c)
       \/ \E lm \in LandmarkSets, inp \in EstimateInputs :
             call = CallEstimate(FsWith(ModelFile, Image(inp[1], inp[2], <<lm>>)), inp[3])
       \/ \E fs \in BrokenFs : call = CallEstimate(fs, 175)
    /\ BotIdle

ApplyGetHeightBand ==
    /\ call.fn = "get_height_band" /\ ~ret.done
    /\ ret' = Done(get_height_band(call.height_cm))
    /\ UNCHANGED <<call, botVars>>

ApplyPickNearestD ==
    /\ call.fn = "pick_nearest_d" /\ ~ret.done
    /\ ret' = Done(pick_nearest_d(call.d_cm))
    /\ UNCHANGED <<call, botVars>>

ApplyRecommendYasneg ==
    /\ call.fn = "recommend_yasneg" /\ ~ret.done
    /\ ret' = Done(recommend_yasneg(call.meas, call.height_cm))
    /\ UNCHANGED <<call, botVars>>

ApplyFormatSizeDisplay ==
    /\ call.fn = "format_size_display" /\ ~ret.done
    /\ ret' = Done(format_size_display(call.raw_size))
    /\ UNCHANGED <<call, botVars>>

\* the call returns or raises, and leaves the debug picture in the file system
ApplyEstimateMeasurements ==
    /\ call.fn = "estimate_measurements" /\ ~ret.done
    /\ LET Returned(result) ==
               /\ ret' = Done(result)
               /\ \E fs \in estimate_measurements_files(call.fs, result) :
                     call' = [call EXCEPT !.fs = fs]
       IN Returned(estimate_measurements(call.fs, call.image_path, call.height_cm))
    /\ UNCHANGED botVars

CoreNext ==
    \/ ApplyGetHeightBand
    \/ ApplyPickNearestD
    \/ ApplyRecommendYasneg
    \/ ApplyFormatSizeDisplay
    \/ ApplyEstimateMeasurements

SpecCore == CoreInit /\ [][CoreNext]_vars


-----------------------------------------------------------------------------
(* bot.py: the message handlers.  The dispatcher runs one coroutine per     *)
(* received message; coroutines interleave at their await points.           *)

\* users 1..NumUsers send at most MaxMessages messages in all
NumUsers == 2
MaxMessages == 3
Users == 1..NumUsers

\* the range of "if not (130 <= height_cm <= 220)"
MinHeightCm == 130
MaxHeightCm == 220

\* dict.get(user_id) when the user has no entry
NoPath == [name |-> "None", user |-> 0]
Paths == {MODEL_PATH} \cup {PhotoPath(u) : u \in Users} \cup {DebugPath(PhotoPath(u)) : u \in Users}

\* path.exists()
exists(fs, path) == fs[path].kind # "absent"

\* the photos users send: a full-body frontal pose, and a picture without a person
FullBodyPose(lo, mid, hi) ==
    Landmarks(lo, [x |-> lo, y |-> mid], [x |-> mid, y |-> mid], hi, hi, hi, hi)
FullBody == Image(300, 800, <<FullBodyPose(Coord(0), Coord(1), Coord(Grid))>>)
NoPerson == Image(300, 800, <<>>)
Photos == {FullBody, NoPerson}

\* DEVANAGARI DIGIT ONE, SEVEN, FIVE; ARABIC-INDIC DIGIT ONE, SEVEN, FIVE
Devanagari175 == <<2407, 2413, 2411>>
ArabicIndic175 == <<1633, 1639, 1637>>
\* SUPERSCRIPT TWO and SUPERSCRIPT FOUR: digits for isdigit, not for int()
SuperscriptTwo == 178
SuperscriptFour == 8308
\* "СМ" and "Ёлка" in Cyrillic
CyrillicCM == <<1057, 1052>>
CyrillicYolka == <<1025, 1083, 1082, 1072>>

\* the texts users send: "175", "134", "rost", "99", " 175 CM", "\t175\n", 175
\* in Arabic-Indic and in Devanagari digits, "175" followed by a superscript
\* two or four, "134СМ" and "Ёлка 175"
Texts ==
    {Chars(<<"1", "7", "5">>), Chars(<<"1", "3", "4">>), Chars(<<"r", "o", "s", "t">>),
     Chars(<<"9", "9">>), Chars(<<" ", "1", "7", "5", " ", "C", "M">>),
     <<9>> \o Chars(<<"1", "7", "5">>) \o <<10>>,
     ArabicIndic175, Devanagari175,
     Chars(<<"1", "7", "5">>) \o <<SuperscriptTwo>>,
     Chars(<<"1", "7", "5">>) \o <<SuperscriptFour>>,
     Chars(<<"1", "3", "4">>) \o CyrillicCM,
     CyrillicYolka \o Chars(<<" ", "1", "7", "5">>)}

\* f"{value:.1f}": ten times the exact binary value n * 2^e is rounded to an
\* integer number of tenths, ties to even, and written with one decimal
Format1f(value) ==
    LET Text(tenths) ==
            (IF value.s < 0 THEN <<ord("-")>> ELSE <<>>)
                \o str(tenths \div 10) \o <<ord(".")>> \o str(tenths % 10)
        Nearest(q, c) == Text(BToInt(q) + (IF c > 0 \/ (c = 0 /\ BIsOdd(q)) THEN 1 ELSE 0))
        Tenths(n, r) ==
            IF r <= 0 THEN Text(BToInt(BShl(n, -r)))
            ELSE Nearest(BShr(n, r), BCmp(BLow(n, r), BShl(<<1>>, r - 1)))
    IN Tenths(BMulSmallC(value.m, 10, 0), -value.e)

Finished(task) == [handler |-> task.handler, user_id |-> task.user_id, pc |-> "done"]

\* the handler ends with an uncaught exception: nothing after the raising line runs
Raised(task, exc) ==
    [handler |-> task.handler, user_id |-> task.user_id, pc |-> "raised", exc |-> exc]

AtPc(t, handler, pc) ==
    /\ t \in 1..Len(tasks)
    /\ tasks[t].handler = handler
    /\ tasks[t].pc = pc

BotInit ==
    /\ call = [fn |-> "none"]
    /\ ret = Pending
    /\ user_photo_paths = [u \in Users |-> NoPath]
    /\ user_waits_height = {}
    /\ disk = [p \in Paths |-> IF p = MODEL_PATH THEN ModelFile ELSE NoFile]
    /\ tasks = <<>>
    /\ photos_received = [u \in Users |-> 0]
    /\ estimations = [u \in Users |-> 0]
    /\ invocation = [called |-> FALSE]
    /\ reply = [sent |-> FALSE]

\* cmd_start: answers and returns
CmdStart(u) ==
    /\ Len(tasks) < MaxMessages
    /\ tasks' = Append(tasks, [handler |-> "cmd_start", user_id |-> u, pc |-> "answer"])
    /\ UNCHANGED <<coreVars, user_photo_paths, user_waits_height, disk,
                   photos_received, estimations, invocation, reply>>

CmdStartReturn(t) ==
    /\ AtPc(t, "cmd_start", "answer")
    /\ tasks' = [tasks EXCEPT ![t] = Finished(@)]
    /\ UNCHANGED <<coreVars, user_photo_paths, user_waits_height, disk,
                   photos_received, estimations, invocation, reply>>

\* handle_photo, lines 33-37: a photo message arrives; await bot.get_file
HandlePhoto(u, photo) ==
    /\ Len(tasks) < MaxMessages
    /\ tasks' = Append(tasks, [handler |-> "handle_photo", user_id |-> u,
                               pc |-> "get_file", photo |-> photo,
                               photo_path |-> NoPath])
    /\ photos_received' = [photos_received EXCEPT ![u] = @ + 1]
    /\ UNCHANGED <<coreVars, user_photo_paths, user_waits_height, disk,
                   estimations, invocation, reply>>

\* handle_photo, lines 39-40: photo_path is computed; await bot.download_file
HandlePhotoGotFile(t) ==
    /\ AtPc(t, "handle_photo", "get_file")
    /\ tasks' = [tasks EXCEPT ![t].pc = "download",
                              ![t].photo_path = PhotoPath(tasks[t].user_id)]
    /\ UNCHANGED <<coreVars, user_photo_paths, user_waits_height, disk,
                   photos_received, estimations, invocation, reply>>

\* the download writes the file while the handler is suspended
HandlePhotoDownload(t) ==
    /\ AtPc(t, "handle_photo", "download")
    /\ disk' = [disk EXCEPT ![tasks[t].photo_path] = tasks[t].photo]
    /\ tasks' = [tasks EXCEPT ![t].pc = "downloaded"]
    /\ UNCHANGED <<coreVars, user_photo_paths, user_waits_height,
                   photos_received, estimations, invocation, reply>>

\* handle_photo, lines 42-45: record the path, wait for the height; await answer
HandlePhotoStore(t) ==
    /\ AtPc(t, "handle_photo", "downloaded")
    /\ user_photo_paths' = [user_photo_paths EXCEPT ![tasks[t].user_id] = tasks[t].photo_path]
    /\ user_waits_height' = user_waits_height \cup {tasks[t].user_id}
    /\ tasks' = [tasks EXCEPT ![t].pc = "answer"]
    /\ UNCHANGED <<coreVars, disk, photos_received, estimations, invocation, reply>>

HandlePhotoReturn(t) ==
    /\ AtPc(t, "handle_photo", "answer")
    /\ tasks' = [tasks EXCEPT ![t] = Finished(@)]
    /\ UNCHANGED <<coreVars, user_photo_paths, user_waits_height, disk,
                   photos_received, estimations, invocation, reply>>

\* handle_height, lines 52-77: a text message arrives; the handler runs to its
\* first await, which is the answer of the branch taken.  int() at line 66
\* raises ValueError for digits that are not decimal: the handler ends there,
\* nothing is answered and nothing changes
HandleHeight(u, message_text) ==
    /\ Len(tasks) < MaxMessages
    /\ LET photo_path == user_photo_paths[u]
           task == [handler |-> "handle_height", user_id |-> u,
                    pc |-> "return", height_cm |-> 0, photo_path |-> NoPath]
           Parsed(height_cm) ==
               IF height_cm.raised THEN Raised(task, height_cm.exc)
               ELSE IF ~(MinHeightCm <= height_cm.value /\ height_cm.value <= MaxHeightCm)
                    THEN task
               ELSE IF photo_path = NoPath \/ ~exists(disk, photo_path)
                    THEN [task EXCEPT !.pc = "no_photo"]
               ELSE [task EXCEPT !.pc = "estimate", !.height_cm = height_cm.value,
                                 !.photo_path = photo_path]
           Filtered(digits) ==
               IF u \notin user_waits_height THEN task
               ELSE IF digits = <<>> THEN task
               ELSE Parsed(int(digits))
           Lowered(text) == Filtered(SelectSeq(text, isdigit))
       IN tasks' = Append(tasks, Lowered(lower(strip(message_text))))
    /\ UNCHANGED <<coreVars, user_photo_paths, user_waits_height, disk,
                   photos_received, estimations, invocation, reply>>

\* handle_height, lines 55-58, 63-64, 68-69: the answer was sent; return
HandleHeightReturn(t) ==
    /\ AtPc(t, "handle_height", "return")
    /\ tasks' = [tasks EXCEPT ![t] = Finished(@)]
    /\ UNCHANGED <<coreVars, user_photo_paths, user_waits_height, disk,
                   photos_received, estimations, invocation, reply>>

\* handle_height, lines 79-102: estimate, recommend, format, build the reply;
\* await the answer (of the except branch, or of the reply)
HandleHeightEstimate(t) ==
    /\ AtPc(t, "handle_height", "estimate")
    /\ LET u == tasks[t].user_id
           height_cm == tasks[t].height_cm
           Recommended(meas, raw_size) ==
               /\ reply' = [sent |-> TRUE, user_id |-> u, height_cm |-> height_cm,
                            waist |-> Format1f(FMul(FromInt(2), meas.waist_girth)),
                            hip |-> Format1f(FMul(FromInt(2), meas.hip_girth)),
                            pants |-> Format1f(meas.pants_length),
                            size_text |-> format_size_display(raw_size),
                            meas |-> meas, raw_size |-> raw_size]
               /\ tasks' = [tasks EXCEPT ![t] =
                               [handler |-> "handle_height", user_id |-> u,
                                pc |-> "reply", debug_path |-> meas.debug_path]]
           Estimated(result) ==
               /\ disk' \in estimate_measurements_files(disk, result)
               /\ IF result.raised
                  THEN /\ tasks' = [tasks EXCEPT ![t].pc = "except"]
                       /\ UNCHANGED reply
                  ELSE Recommended(result.value,
                                   recommend_yasneg(result.value, height_cm).value)
       IN
       /\ estimations' = [estimations EXCEPT ![u] = @ + 1]
       /\ invocation' = [called |-> TRUE, user_id |-> u, height_cm |-> height_cm,
                         waits_height |-> u \in user_waits_height,
                         photo_path |-> user_photo_paths[u]]
       /\ Estimated(estimate_measurements(disk, tasks[t].photo_path, height_cm))
    /\ UNCHANGED <<coreVars, user_photo_paths, user_waits_height, photos_received>>

\* handle_height, lines 105-108: if the debug picture exists, InputFile(...) at
\* line 106 raises TypeError (aiogram.types.InputFile is an abstract class) and
\* the handler ends there, before the discard of line 108; else discard the
\* user and return
HandleHeightAfterReply(t) ==
    /\ AtPc(t, "handle_height", "reply")
    /\ IF tasks[t].debug_path # NoPath /\ exists(disk, tasks[t].debug_path)
       THEN /\ tasks' = [tasks EXCEPT ![t] = Raised(@, "TypeError")]
            /\ UNCHANGED user_waits_height
       ELSE /\ user_waits_height' = user_waits_height \ {tasks[t].user_id}
            /\ tasks' = [tasks EXCEPT ![t] = Finished(@)]
    /\ UNCHANGED <<coreVars, user_photo_paths, disk, photos_received,
                   estimations, invocation, reply>>

\* handle_height, lines 74-75, 83-84: after the awaited answer, discard the
\* user from user_waits_height and return
HandleHeightDiscard(t) ==
    /\ t \in 1..Len(tasks)
    /\ tasks[t].handler = "handle_height"
    /\ tasks[t].pc \in {"no_photo", "except"}
    /\ user_waits_height' = user_waits_height \ {tasks[t].user_id}
    /\ tasks' = [tasks EXCEPT ![t] = Finished(@)]
    /\ UNCHANGED <<coreVars, user_photo_paths, disk, photos_received,
                   estimations, invocation, reply>>

Next ==
    \/ \E u \in Users : CmdStart(u)
    \/ \E u \in Users, photo \in Photos : HandlePhoto(u, photo)
    \/ \E u \in Users, text \in Texts : HandleHeight(u, text)
    \/ \E t \in 1..MaxMessages :
          \/ CmdStartReturn(t)
          \/ HandlePhotoGotFile(t)
          \/ HandlePhotoDownload(t)
          \/ HandlePhotoStore(t)
          \/ HandlePhotoReturn(t)
          \/ HandleHeightReturn(t)
          \/ HandleHeightEstimate(t)
          \/ HandleHeightAfterReply(t)
          \/ HandleHeightDiscard(t)

Spec == BotInit /\ [][Next]_vars

-----------------------------------------------------------------------------
(* Claims about the size resolver and the label rendering *)

Applied(fn) == call.fn = fn /\ ret.done

BandRank(band) == CASE band = "low" -> 1 [] band = "mid" -> 2 [] band = "high" -> 3

\* C1: get_height_band is total over the integers: it returns low for every
\* height <= 173, mid for 174..184 and high for every height >= 185, and the
\* band never moves downward as the height increases.
C1_HeightBandTotalMonotone ==
    Applied("get_height_band") =>
        LET h == call.height_cm IN
        /\ ret.value \in {"low", "mid", "high"}
        /\ (h <= 173) => ret.value = "low"
        /\ (174 <= h /\ h <= 184) => ret.value = "mid"
        /\ (h >= 185) => ret.value = "high"
        /\ \A h2 \in Heights :
              h2 >= h => BandRank(get_height_band(h2)) >= BandRank(ret.value)

\* a height below the lowest threshold (163) was banded low
C1_Witness ==
    Applied("get_height_band") /\ call.height_cm = 100 /\ ret.value = "low"

\* the distance |key - d| of a matrix key to a waist girth, exactly
KeyDistance(key, d) == DAbs(DSub(FromInt(key), d))

\* no key is nearer to d than k, and no lower key is as near
NearestLowest(k, d) ==
    \A o \in DOMAIN SIZE_MATRIX :
        /\ DCmp(KeyDistance(k, d), KeyDistance(o, d)) <= 0
        /\ DCmp(KeyDistance(k, d), KeyDistance(o, d)) = 0 => k <= o

\* C2 (as stated): pick_nearest_d returns a key of the size matrix at minimal
\* distance from the waist girth, the lower key on a tie; girths below 85 give
\* 85 and girths above 109 give 109, for every waist girth.
C2_NearestKeyLowestOnTie ==
    Applied("pick_nearest_d") =>
        LET d == call.d_cm IN
        /\ ret.value \in DOMAIN SIZE_MATRIX
        /\ NearestLowest(ret.value, d)
        /\ FLess(d, FromInt(85)) => ret.value = 85
        /\ FLess(FromInt(109), d) => ret.value = 109

\* a waist girth of magnitude below 2^56: the rounded distances abs(base - d)
\* of two keys are equal only when the exact distances are
Below2to56(d) == DCmp(DAbs(d), FPow2(56)) < 0

\* C2 (amended): pick_nearest_d always returns a key of the size matrix, and 85
\* for every girth below 85; for a girth of magnitude below 2^56 the key is at
\* minimal distance, the lower key on a tie, and 109 for girths above 109.
C2_NearestKeyBelow2to56 ==
    Applied("pick_nearest_d") =>
        LET d == call.d_cm IN
        /\ ret.value \in DOMAIN SIZE_MATRIX
        /\ FLess(d, FromInt(85)) => ret.value = 85
        /\ Below2to56(d) =>
              /\ NearestLowest(ret.value, d)
              /\ FLess(FromInt(109), d) => ret.value = 109

\* waist 87, midway between 85 and 89, resolved to 85
C2_Witness ==
    Applied("pick_nearest_d") /\ FEq(call.d_cm, FromInt(87)) /\ ret.value = 85

\* the largest float below 2^56 resolved to 109
C2_WitnessLarge ==
    /\ Applied("pick_nearest_d")
    /\ call.d_cm = FSub(FPow2(56), FromInt(8))
    /\ ret.value = 109

\* the 21 codes stored in the size matrix
MatrixCodes == {SIZE_MATRIX[k][b] : k \in DOMAIN SIZE_MATRIX, b \in {"low", "mid", "high"}}

\* the band of a height, as the claim words it
BandOf(h) == IF h <= 173 THEN "low" ELSE IF h <= 184 THEN "mid" ELSE "high"

\* C3 (as stated): recommend_yasneg never fails and returns the matrix entry of
\* the key nearest to the waist girth (lowest on a tie) and of the height's
\* band, one of the 21 codes of the matrix, for every waist girth and height.
C3_RecommendTotal ==
    Applied("recommend_yasneg") =>
        LET d == call.meas.waist_girth
            band == BandOf(call.height_cm)
        IN
        /\ ~ret.value.raised
        /\ ret.value.value \in MatrixCodes
        /\ Cardinality(MatrixCodes) = 21
        /\ \E k \in DOMAIN SIZE_MATRIX :
              NearestLowest(k, d) /\ ret.value.value = SIZE_MATRIX[k][band]

\* C3 (amended): recommend_yasneg never fails and returns one of the 21 codes
\* of the matrix, in the column of the height's band, for every waist girth and
\* height; for a girth of magnitude below 2^56 the row is that of the nearest
\* key (lowest on a tie).
C3_RecommendTotalBelow2to56 ==
    Applied("recommend_yasneg") =>
        LET d == call.meas.waist_girth
            band == BandOf(call.height_cm)
        IN
        /\ ~ret.value.raised
        /\ ret.value.value \in MatrixCodes
        /\ Cardinality(MatrixCodes) = 21
        /\ \E k \in DOMAIN SIZE_MATRIX : ret.value.value = SIZE_MATRIX[k][band]
        /\ Below2to56(d) =>
              \E k \in DOMAIN SIZE_MATRIX :
                 NearestLowest(k, d) /\ ret.value.value = SIZE_MATRIX[k][band]

\* a waist above the belt range and a height above 220 resolved to 158
C3_Witness ==
    /\ Applied("recommend_yasneg")
    /\ FLess(FromInt(109), call.meas.waist_girth)
    /\ Below2to56(call.meas.waist_girth)
    /\ call.height_cm > 220
    /\ ~ret.value.raised /\ ret.value.value = 158

\* t is the decimal numeral of n: no sign for n >= 0, no leading zero
IsDigits(t) == t # <<>> /\ \A i \in 1..Len(t) : ord("0") <= t[i] /\ t[i] <= ord("9")

IsNumeralOf(t, n) ==
    IF n < 0
    THEN Len(t) > 1 /\ t[1] = ord("-") /\ IsDigits(Tail(t)) /\ int(Tail(t)) = Return(-n)
         /\ (Len(t) > 2 => t[2] # ord("0"))
    ELSE IsDigits(t) /\ int(t) = Return(n) /\ (Len(t) > 1 => t[1] # ord("0"))

\* C4: format_size_display returns "<raw> (<label>)" for a code of the label
\* table, which starts with the code's decimal digits, and the bare decimal
\* string, without parentheses, for any other integer.
C4_FormatLabel ==
    Applied("format_size_display") =>
        LET raw == call.raw_size
            out == ret.value
        IN
        IF raw \in DOMAIN SIZE_LABELS
        THEN \E n \in 1..Len(out) :
                /\ IsNumeralOf(SubSeq(out, 1, n), raw)
                /\ SubSeq(out, n + 1, Len(out)) = Chars(<<" ", "(">>) \o SIZE_LABELS[raw] \o Chars(<<")">>)
        ELSE /\ IsNumeralOf(out, raw)
             /\ \A i \in 1..Len(out) : out[i] \notin {ord("("), ord(")")}

\* code 46 rendered as "46 (M46)"
C4_Witness ==
    /\ Applied("format_size_display")
    /\ call.raw_size = 46
    /\ ret.value = Chars(<<"4", "6", " ", "(", "M", "4", "6", ")">>)

\* a negative code, absent from the table, rendered bare
C4_WitnessAbsent ==
    Applied("format_size_display") /\ call.raw_size = -12 /\ ret.value = Chars(<<"-", "1", "2">>)

-----------------------------------------------------------------------------
(* Claims about the measurement estimator *)

\* the call reached the geometry: model file present, image decoded, a pose found
HasPose ==
    /\ call.fn = "estimate_measurements"
    /\ call.fs[MODEL_PATH] = ModelFile
    /\ call.fs[call.image_path].kind = "image"
    /\ call.fs[call.image_path].poses # <<>>

CallLandmarks == call.fs[call.image_path].poses[1]

\* the vertical span in pixels:
\* |max of the four ankle / forefoot y - head y| * image height
Span ==
    LET lm == CallLandmarks
        ys == {lm[LEFT_ANKLE].y, lm[RIGHT_ANKLE].y, lm[LEFT_FOOT].y, lm[RIGHT_FOOT].y}
        lowest == CHOOSE m \in ys : \A o \in ys : DCmp(o, m) <= 0
    IN DAbs(FMul(FSub(lowest, lm[NOSE].y), FromInt(call.fs[call.image_path].h)))

SpanAtLeast10 == DCmp(Span, FromInt(10)) >= 0

\* C5 (as stated): every pose with a span >= 10 px and a positive height gives
\* waist_girth > 0, hip_girth > 0 and pants_length > 0.
C5_MeasurementsPositive ==
    (Applied("estimate_measurements") /\ HasPose /\ SpanAtLeast10 /\ call.height_cm > 0) =>
        /\ ~ret.value.raised
        /\ FPositive(ret.value.value.waist_girth)
        /\ FPositive(ret.value.value.hip_girth)
        /\ FPositive(ret.value.value.pants_length)

\* C6: a pose with a span below 10 px makes estimate_measurements fail with its
\* pose error (RuntimeError "body height too small") and return no Measurements;
\* a span of 10 px or more does not raise.
C6_SmallSpanFails ==
    (Applied("estimate_measurements") /\ HasPose) =>
        IF SpanAtLeast10
        THEN ~ret.value.raised
        ELSE /\ ret.value.raised
             /\ ret.value.exc = "RuntimeError"
             /\ ret.value.msg = "body height too small"
             /\ "value" \notin DOMAIN ret.value
             /\ call.fs[DebugPath(call.image_path)] = NoFile

\* a span of 9 px (half of 18) failed
C6_Witness ==
    /\ Applied("estimate_measurements") /\ HasPose
    /\ Span = FromInt(9)
    /\ ret.value.raised

\* a span of exactly 10 px returned measurements
C6_WitnessBoundary ==
    /\ Applied("estimate_measurements") /\ HasPose
    /\ Span = FromInt(10)
    /\ ~ret.value.raised

\* the quotient waist_girth / hip_girth the program would compute is the float
\* 0.9, and 10 * waist_girth = 9 * hip_girth holds of the two values exactly
RatioIsNineTenths(meas) ==
    /\ FDiv(meas.waist_girth, meas.hip_girth) = WaistFactor
    /\ DCmp(DMul(FromInt(10), meas.waist_girth), DMul(FromInt(9), meas.hip_girth)) = 0

\* C7 (as stated): for every valid input hip_girth is nonzero,
\* waist_girth / hip_girth is exactly 0.9 and 10 * waist_girth = 9 * hip_girth.
C7_WaistHipRatio ==
    (Applied("estimate_measurements") /\ HasPose /\ SpanAtLeast10) =>
        /\ ~ret.value.raised
        /\ ret.value.value.hip_girth.m # <<>>
        /\ RatioIsNineTenths(ret.value.value)

\* C7 restricted to a nonzero hip_girth: violated as well, by the rounding of
\* (width * 0.9) * scale * 2 alone
C7_RatioWhenHipsApart ==
    (/\ Applied("estimate_measurements") /\ HasPose /\ SpanAtLeast10
     /\ ~ret.value.raised /\ ret.value.value.hip_girth.m # <<>>) =>
        RatioIsNineTenths(ret.value.value)

-----------------------------------------------------------------------------
(* Claims about the handlers of bot.py *)

\* C8 (as stated): estimate_measurements and recommend_yasneg are invoked only
\* with 130 <= height_cm <= 220, only for a user who is in user_waits_height and
\* has a stored photo path.
C8_ValidatedBeforeCore ==
    invocation.called =>
        /\ MinHeightCm <= invocation.height_cm /\ invocation.height_cm <= MaxHeightCm
        /\ invocation.waits_height
        /\ invocation.photo_path # NoPath

\* the part of C8 that holds in every interleaving: the height handed to the
\* core is in 130..220 and the user has a stored photo path
C8_HeightInRange ==
    invocation.called =>
        /\ MinHeightCm <= invocation.height_cm /\ invocation.height_cm <= MaxHeightCm
        /\ invocation.photo_path # NoPath

\* the part of C8 about rejected messages: a text without digits or with a
\* number outside 130..220 starts no estimation and changes neither dict
C8_RejectedTextChangesNothing ==
    [][\A u \in Users, text \in Texts :
          (HandleHeight(u, text)
             /\ LET digits == SelectSeq(lower(strip(text)), isdigit)
                IN \/ digits = <<>>
                   \/ /\ ~int(digits).raised
                      /\ int(digits).value < MinHeightCm \/ int(digits).value > MaxHeightCm)
          => /\ tasks'[Len(tasks')].pc = "return"
             /\ UNCHANGED <<user_photo_paths, user_waits_height, estimations>>]_vars

\* C9 (as stated): in every interleaving the estimations run for a user never
\* exceed the photos received from that user.
C9_OneEstimationPerPhoto ==
    \A u \in Users : estimations[u] <= photos_received[u]

\* the second part of C9: the step in which a handler that ran an estimation
\* ends (by return or by exception) leaves the user out of user_waits_height
C9_FinishDiscards ==
    [][\A t \in 1..MaxMessages :
          (/\ t \in 1..Len(tasks)
           /\ tasks[t].handler = "handle_height"
           /\ tasks[t].pc \in {"except", "reply"}
           /\ tasks'[t].pc \in {"done", "raised"})
          => tasks[t].user_id \notin user_waits_height']_vars

\* the part of it that holds: a handler whose estimation failed, or whose debug
\* picture does not exist, discards the user in its last step
C9_ReturnDiscards ==
    [][\A t \in 1..MaxMessages :
          (/\ t \in 1..Len(tasks)
           /\ tasks[t].handler = "handle_height"
           /\ tasks[t].pc \in {"except", "reply"}
           /\ tasks'[t].pc = "done")
          => tasks[t].user_id \notin user_waits_height']_vars

\* C10 (as stated): the waist and hip shown in the reply are the waist_girth and
\* hip_girth of the Measurements, the waist recommend_yasneg used.
C10_ReplyShowsMeasurements ==
    reply.sent =>
        /\ reply.waist = Format1f(reply.meas.waist_girth)
        /\ reply.hip = Format1f(reply.meas.hip_girth)

\* what the reply shows: twice each girth (and the pants length as estimated)
C10_ReplyShowsDoubled ==
    reply.sent =>
        /\ reply.waist = Format1f(FMul(FromInt(2), reply.meas.waist_girth))
        /\ reply.hip = Format1f(FMul(FromInt(2), reply.meas.hip_girth))
        /\ reply.pants = Format1f(reply.meas.pants_length)

=============================================================================
